---- MODULE Spec2Model ----
(***************************************************************************)
(* State-machine model of the animated line graph component               *)
(* (src/src/AnimatedLineGraph.tsx) and of the static graph                 *)
(* (src/unnamed/part_000): the update effect that builds the curves and    *)
(* publishes the CurvePairs, the progress driver, the displayed            *)
(* interpolation, and the pointer reaction that selects samples.           *)
(*                                                                         *)
(* Numbers are integers.  A pixel coordinate that the program computes in  *)
(* floating point is computed here with the same formula and rounded down  *)
(* (\div); the progress value in [0,1] is k/PMax for k in 0..PMax.         *)
(***************************************************************************)
EXTENDS Integers, Sequences, FiniteSets, TLC

(* ------------------------------ bounds --------------------------------- *)
\* largest number of series (allPoints.length)
MaxSeries == 2
\* resolution of the progress signal: progress = k / PMax
PMax == 2
\* number of renders (runs of the update effect) explored after the first
MaxRenders == 4
\* the same while the pan gesture is enabled
MaxRendersPan == 2
\* number of pointer movements explored
MaxMoves == 2

(* --------------------------- small helpers ----------------------------- *)
None == [some |-> FALSE, path |-> <<>>]
Some(c) == [some |-> TRUE, path |-> c]

\* a ?? b on an optional curve
OrElse(o, d) == IF o.some THEN o.path ELSE d

Pt(d, v) == [date |-> d, value |-> v]
Cmd(k, px, py) == [verb |-> k, x |-> px, y |-> py]

RECURSIVE MinVal(_), MaxVal(_)
MinVal(ps) ==
  IF Len(ps) = 1 THEN ps[1].value
  ELSE LET m == MinVal(Tail(ps)) IN IF ps[1].value < m THEN ps[1].value ELSE m
MaxVal(ps) ==
  IF Len(ps) = 1 THEN ps[1].value
  ELSE LET m == MaxVal(Tail(ps)) IN IF ps[1].value > m THEN ps[1].value ELSE m

(* ------------------------------ inputs --------------------------------- *)
\* the point sets a host passes (ordered by date, non-empty)
PointSets ==
  { << Pt(0, 0), Pt(2, 1) >>,
    << Pt(0, 1), Pt(2, 0) >>,
    << Pt(0, 1), Pt(1, 0), Pt(2, 1) >> }

\* point sets whose dates are not evenly spaced
PointSetsUneven ==
  { << Pt(0, 0), Pt(3, 1), Pt(4, 0) >> }

NoRange == [hasX |-> FALSE, xmin |-> 0, xmax |-> 0, hasY |-> FALSE, ymin |-> 0, ymax |-> 0]
\* the range overrides a host passes: none, an x window, an x window that
\* holds no sample
Ranges ==
  { NoRange,
    [hasX |-> TRUE, xmin |-> 1, xmax |-> 2, hasY |-> FALSE, ymin |-> 0, ymax |-> 0],
    [hasX |-> TRUE, xmin |-> 3, xmax |-> 4, hasY |-> FALSE, ymin |-> 0, ymax |-> 0] }

\* canvas sizes <<width, height>> a layout reports (0 = not yet measured);
\* heights are even so that height / 2 is exact
Sizes == { << 0, 0 >>, << 3, 2 >>, << 4, 2 >> }
\* pointer positions (pixels) the pan gesture reports
FingerXs == {0, 3, 4}
\* <<horizontalPadding, verticalPadding>> a host passes
Paddings == { << 0, 0 >>, << 1, 1 >> }

(* ------------------- CreateGraphPath (range, filter, builder) ---------- *)
\* Range Resolver
getGraphPathRange(points, r) ==
  [ xmin |-> IF r.hasX THEN r.xmin ELSE points[1].date,
    xmax |-> IF r.hasX THEN r.xmax ELSE points[Len(points)].date,
    ymin |-> IF r.hasY THEN r.ymin ELSE MinVal(points),
    ymax |-> IF r.hasY THEN r.ymax ELSE MaxVal(points) ]

\* Point Filter: the samples whose date lies in [xmin, xmax], in order
getPointsInRange(points, pr) ==
  SelectSeq(points, LAMBDA p : p.date >= pr.xmin /\ p.date <= pr.xmax)

\* fraction * extent, the fraction being 1/2 on a zero span
Scale(num, span, extent) ==
  IF span = 0 THEN extent \div 2 ELSE (num * extent) \div span

\* pixel offset of a date inside a drawing width
getXInRange(w, date, pr) == Scale(date - pr.xmin, pr.xmax - pr.xmin, w)

PixelX(p, props) ==
  props.horizontalPadding
    + getXInRange(props.canvasWidth - 2 * props.horizontalPadding, p.date, props.range)

PixelY(p, props) ==
  LET extent == props.canvasHeight - 2 * props.verticalPadding
  IN  props.verticalPadding + extent
        - Scale(p.value - props.range.ymin, props.range.ymax - props.range.ymin, extent)

\* Path Builder: move to the first mapped point, one cubic per further point;
\* a single point gives one straight segment; no point gives the empty curve
createGraphPath(props) ==
  LET ps == props.pointsInRange
  IN  IF Len(ps) = 0 THEN <<>>
      ELSE IF Len(ps) = 1
        THEN << Cmd("M", PixelX(ps[1], props), PixelY(ps[1], props)),
                Cmd("L", PixelX(ps[1], props), PixelY(ps[1], props)) >>
        ELSE [k \in 1..Len(ps) |->
                Cmd(IF k = 1 THEN "M" ELSE "C", PixelX(ps[k], props), PixelY(ps[k], props))]

\* the stroke curve and the fill curve: the stroke closed along the baseline
createGraphPathWithGradient(props) ==
  LET p == createGraphPath(props)
  IN  [ path |-> p,
        gradientPath |->
          IF Len(p) = 0 THEN <<>>
          ELSE p \o << Cmd("L", p[Len(p)].x, props.canvasHeight),
                       Cmd("L", p[1].x, props.canvasHeight) >> ]

(* ------------------------------ SkPath --------------------------------- *)
\* SkPath.isInterpolatable: same verbs, same number of points
isInterpolatable(a, b) ==
  /\ Len(a) = Len(b)
  /\ \A k \in 1..Len(a) : a[k].verb = b[k].verb

\* weighted average of one coordinate: this * weight + ending * (1 - weight)
Mix(a, b, p) == (a * p + b * (PMax - p)) \div PMax

\* SkPath.interpolate: this.interpolate(ending, weight), null when the two
\* paths are not interpolatable
interpolate(this, ending, p) ==
  IF isInterpolatable(this, ending)
    THEN Some([k \in 1..Len(this) |->
                 Cmd(this[k].verb, Mix(this[k].x, ending[k].x, p),
                                   Mix(this[k].y, ending[k].y, p))])
    ELSE None

\* SkPath.toCmds
toCmds(path) == path

(* ------------------------------- state --------------------------------- *)
VARIABLES
  nSeries,            \* allPoints.length, fixed for the component's life
  enablePanGesture,   \* prop, fixed for the component's life
  shouldFillGradient, \* gradientFillColors != null
  allPoints,          \* prop: one point set per series
  range,              \* prop: the range override
  horizontalPadding,  \* prop
  verticalPadding,    \* prop (its default is lineThickness)
  width, height,      \* measured canvas size (React state)
  pathRanges,         \* useMemo per series
  pointsInRanges,     \* useMemo per series
  straightLine,       \* useMemo: the flat placeholder
  staticPath,         \* StaticLineGraph: useMemo path of series 0
  pathsValues,        \* per series CurvePair {from?, to?}
  gradientPaths,      \* the gradient CurvePair (.current) and its property 0
  interpolateProgresses, \* per series progress, k of k/PMax
  commands,           \* per series command sequence read by getYForX
  commandsChanged,    \* per series React state: a number or NaN
  renderPending,      \* a state setter has scheduled a re-render
  x, isActive,        \* pan gesture shared values
  pointSelectedIndex, \* the one ref shared by all series
  circleXs, circleYs, \* per series indicator position (shared values)
  pathEnds,           \* per series end of the coloured stroke, <<num, den>>
  error,              \* an exception escaped a handler
  renders,            \* number of renders after the first
  moves,              \* number of pointer movements so far
  panned,             \* React state set by the first activation
  reported,           \* history: per series, the index last passed to onPointSelected
  gestures,           \* history: the gesture callbacks invoked (last step, before it)
  upd,                \* history: what the last run of the update effect did
  rerun,              \* history: the last step was a render with unchanged inputs
  sel                 \* history: what the last pointer movement did

inputs == << nSeries, enablePanGesture, shouldFillGradient, allPoints, range, horizontalPadding,
             verticalPadding, width, height >>
memos == << pathRanges, pointsInRanges, straightLine, staticPath >>
curves == << pathsValues, gradientPaths, interpolateProgresses, commands,
             commandsChanged, renderPending, upd, rerun >>
pointer == << x, isActive, pointSelectedIndex, sel, moves, panned, reported,
             circleXs, circleYs, pathEnds, gestures >>
vars == << inputs, memos, curves, pointer, error, renders >>

Series == 1..nSeries

EmptyPair == [from |-> None, to |-> None]

(* ------------------------ render-time computations --------------------- *)
\* makeStraightLine that draws the line along the top edge
makeStraightLineTop(w, h) ==
  << Cmd("M", 0, 0) >>
    \o [k \in 1..(IF w - 1 > 0 THEN w \div 2 ELSE 0) |-> Cmd("C", 2 * (k - 1), 0)]

\* lines 136-146
makeStraightLine(w, h) ==
  << Cmd("M", 0, h \div 2) >>
    \o [k \in 1..(IF w - 1 > 0 THEN w \div 2 ELSE 0) |-> Cmd("C", 2 * (k - 1), h \div 2)]

\* lines 176-179
drawingWidth(w, hp) == w - 2 * hp

\* lines 220-229
createGraphPathProps(i, pir, prs, hp, vp, w, h) ==
  [ pointsInRange |-> pir[i], range |-> prs[i],
    horizontalPadding |-> hp, verticalPadding |-> vp,
    canvasHeight |-> h, canvasWidth |-> w ]

\* lines 217-241: the array `paths` after the build; None is an entry that
\* holds the number 0 it was filled with
buildPaths(grad, n, pir, prs, hp, vp, w, h) ==
  [i \in 1..n |->
     IF grad
       THEN IF i = 1
              THEN Some(createGraphPathWithGradient(
                          createGraphPathProps(1, pir, prs, hp, vp, w, h)).path)
              ELSE None
       ELSE Some(createGraphPath(createGraphPathProps(i, pir, prs, hp, vp, w, h)))]

\* fromValue without the in-flight interpolation: always the previous `to`
fromValueSnap(previous, progress, line) == OrElse(previous.to, line)

\* fromValue that restarts an unfinished transition from its old `from`
fromValueRestart(previous, progress, line) ==
  LET from == OrElse(previous.to, line)
  IN  IF previous.from.some /\ progress < PMax
        THEN previous.from.path
        ELSE from

\* lines 267-274: the `from` of the next pair of one series
fromValue(previous, progress, line) ==
  LET from == OrElse(previous.to, line)
  IN  IF previous.from.some /\ progress < PMax
        THEN OrElse(interpolate(from, previous.from.path, progress), from)
        ELSE from

\* nextPair without the hard cut
nextPairNoCut(path, from) == [from |-> Some(from), to |-> Some(path)]

\* nextPair whose fallback keeps the old curve instead of the new one
nextPairKeepOld(path, from) ==
  IF isInterpolatable(path, from)
    THEN [from |-> Some(from), to |-> Some(path)]
    ELSE [from |-> Some(from), to |-> Some(from)]

\* lines 277-289: the pair published for one series
nextPair(path, from) ==
  IF isInterpolatable(path, from)
    THEN [from |-> Some(from), to |-> Some(path)]
    ELSE [from |-> Some(path), to |-> Some(path)]

\* shownPath with `from` and `to` exchanged
shownPathSwapped(pair, progress, line) ==
  interpolate(OrElse(pair.from, line), OrElse(pair.to, line), progress)

\* lines 344-355: the displayed curve of series i (null -> None)
shownPath(pair, progress, line) ==
  interpolate(OrElse(pair.to, line), OrElse(pair.from, line), progress)

paths(i) == shownPath(pathsValues[i], interpolateProgresses[i], straightLine)

\* lines 357-366: the displayed gradient curve
gradientPath ==
  shownPath(gradientPaths.current, interpolateProgresses[1], straightLine)

(* ------------------------------- Init ---------------------------------- *)
NoUpdate == [outcome |-> "none", prog |-> <<>>, had |-> <<>>, cut |-> <<>>]
NoMove == [moved |-> FALSE, idx |-> <<>>, calls |-> {}, before |-> <<>>]
Undefined == [kind |-> "undefined", n |-> 0]
NaN == [kind |-> "NaN", n |-> 0]
Num(n) == [kind |-> "number", n |-> n]
\* no gesture callback invoked yet
NoGesture == [step |-> <<>>, prev |-> "none"]
\* the whole stroke: pathEnd = 1
WholePath == << 1, 1 >>

\* lines 43-54 of the static graph: the dependencies of its path memo
staticPathDeps(h, lineThickness, points, r, w) == << h, lineThickness, points, r, w >>

\* lines 43-52 of the static graph
buildStaticPath(pir, pr, h, w, lineThickness) ==
  createGraphPath([ pointsInRange |-> pir, range |-> pr,
                    canvasHeight |-> h, canvasWidth |-> w,
                    horizontalPadding |-> lineThickness,
                    verticalPadding |-> lineThickness ])

\* the state after the first render: nothing measured, nothing published;
\* the host passed point sets of the catalogue `sets`
InitWith(sets) ==
  /\ nSeries \in 1..MaxSeries
  /\ enablePanGesture \in BOOLEAN
  /\ shouldFillGradient \in BOOLEAN
  /\ allPoints \in [1..nSeries -> sets]
  /\ range = NoRange
  /\ horizontalPadding = 0
  /\ verticalPadding = 0
  /\ width = 0
  /\ height = 0
  /\ pathRanges = [i \in 1..nSeries |-> getGraphPathRange(allPoints[i], range)]
  /\ pointsInRanges = [i \in 1..nSeries |-> getPointsInRange(allPoints[i], pathRanges[i])]
  /\ straightLine = makeStraightLine(0, 0)
  /\ staticPath = buildStaticPath(pointsInRanges[1], pathRanges[1], 0, 0, 0)
  /\ pathsValues = [i \in 1..nSeries |-> EmptyPair]
  /\ gradientPaths = [current |-> EmptyPair, slot0 |-> None]
  /\ interpolateProgresses = [i \in 1..nSeries |-> 0]
  /\ commands = [i \in 1..nSeries |-> <<>>]
  /\ commandsChanged = [i \in 1..nSeries |-> Num(0)]
  /\ renderPending = FALSE
  /\ x = 0
  /\ isActive = FALSE
  /\ pointSelectedIndex = Undefined
  /\ circleXs = [i \in 1..nSeries |-> 0]
  /\ circleYs = [i \in 1..nSeries |-> 0]
  /\ pathEnds = [i \in 1..nSeries |-> WholePath]
  /\ gestures = NoGesture
  /\ error = FALSE
  /\ renders = 0
  /\ moves = 0
  /\ panned = FALSE
  /\ reported = [i \in 1..nSeries |-> Undefined]
  /\ upd = NoUpdate
  /\ rerun = FALSE
  /\ sel = NoMove

Init == InitWith(PointSets)

(* --------------------------- the update effect ------------------------- *)
\* lines 243-245: the first index whose entry of `paths` is no path, or 0
firstNotAPath(built) ==
  IF \E i \in DOMAIN built : ~built[i].some
    THEN CHOOSE i \in DOMAIN built :
           ~built[i].some /\ \A j \in DOMAIN built : ~built[j].some => i <= j
    ELSE 0

\* the counter the setter was written for: the old count plus one
nextCommandsChangedCount(old) ==
  IF old.kind = "number" THEN Num(old.n + 1) ELSE old

\* line 292: _commandsChanged is a number, so _commandsChanged[index] is
\* undefined and undefined + 1 is NaN
nextCommandsChanged(old) == NaN

\* lines 207-210: the canvas is not measured yet
unmeasured(w, h) == h < 1 \/ w < 1

\* the guard without the test of the filtered sets
emptySeriesNone(pir) == {}

\* lines 211-215: the series whose filtered point set is empty
emptySeries(pir) == {i \in DOMAIN pir : Len(pir[i]) < 1}

\* the callbacks of setIsActive the wrong way round
setIsActiveInverted(active) ==
  IF ~active
    THEN [panned |-> TRUE, callback |-> "onGestureStart"]
    ELSE [panned |-> FALSE, callback |-> "onGestureEnd"]

\* lines 446-473: what setIsActive(active) does: whether it calls
\* setPanned(true), and the gesture callback it invokes
setIsActive(active) ==
  IF active
    THEN [panned |-> TRUE, callback |-> "onGestureStart"]
    ELSE [panned |-> FALSE, callback |-> "onGestureEnd"]

\* the gesture history after a step that invokes no gesture callback
quiet(g) ==
  [step |-> <<>>, prev |-> IF g.step = <<>> THEN g.prev ELSE g.step[Len(g.step)]]

\* the gesture history after a step that invokes the callback cb
invoked(g, cb) == [step |-> << cb >>, prev |-> quiet(g).prev]

\* runSpring that does not restart the value
runSpringKeep(current) == current

\* lines 295-306: runSpring(value, {from: 0, to: 1}) restarts the value at 0;
\* the driver then advances it (AdvanceProgress)
runSpring(current) == 0

\* newCommands that stores the commands of the first series only
newCommandsFirstOnly(built, old, bad) ==
  [i \in DOMAIN old |->
     IF i = 1 /\ (bad = 0 \/ i < bad) THEN toCmds(built[i].path) ELSE old[i]]

\* lines 243-245: the command sequences after the forEach, which stops at
\* the first entry `bad` of `paths` that is no path (0: none)
newCommands(built, old, bad) ==
  [i \in DOMAIN old |->
     IF bad = 0 \/ i < bad THEN toCmds(built[i].path) ELSE old[i]]

\* lines 206-321: the effect, run after a render with the given inputs
updateEffect(w, h, hp, vp, pir, prs, line) ==
  IF unmeasured(w, h)
    THEN /\ upd' = [NoUpdate EXCEPT !.outcome = "unmeasured"]
         /\ UNCHANGED << pathsValues, gradientPaths, interpolateProgresses,
                         commands, commandsChanged, error >>
         /\ renderPending' = FALSE
  ELSE IF emptySeries(pir) # {}
    THEN /\ upd' = [NoUpdate EXCEPT !.outcome = "empty"]
         /\ UNCHANGED << pathsValues, gradientPaths, interpolateProgresses,
                         commands, commandsChanged, error >>
         /\ renderPending' = FALSE
  ELSE
    LET built == buildPaths(shouldFillGradient, nSeries, pir, prs, hp, vp, w, h)
        \* line 218: _gradientPaths is filled with null and never assigned
        _gradientPaths == [i \in Series |-> None]
        \* line 236: the fill curve is stored as property 0 of the value
        slot == IF shouldFillGradient
                  THEN Some(createGraphPathWithGradient(
                              createGraphPathProps(1, pir, prs, hp, vp, w, h)).gradientPath)
                  ELSE gradientPaths.slot0
        bad == firstNotAPath(built)
    IN  IF bad # 0
          THEN \* paths[bad] is the number 0: toCmds is not a function
               /\ commands' = newCommands(built, commands, bad)
               /\ gradientPaths' = [gradientPaths EXCEPT !.slot0 = slot]
               /\ error' = TRUE
               /\ upd' = [NoUpdate EXCEPT !.outcome = "throw"]
               /\ renderPending' = FALSE
               /\ UNCHANGED << pathsValues, interpolateProgresses, commandsChanged >>
          ELSE
               /\ commands' = newCommands(built, commands, bad)
               /\ gradientPaths' =
                    IF _gradientPaths[1].some
                      THEN [ current |->
                               nextPair(_gradientPaths[1].path,
                                        fromValue(gradientPaths.current,
                                                  interpolateProgresses[1], line)),
                             slot0 |-> slot ]
                      ELSE [gradientPaths EXCEPT !.slot0 = slot]
               /\ pathsValues' =
                    [i \in Series |->
                       nextPair(built[i].path,
                                fromValue(pathsValues[i], interpolateProgresses[i], line))]
               /\ commandsChanged' =
                    [i \in Series |-> nextCommandsChanged(commandsChanged[i])]
               \* a setter that changes the state schedules a re-render
               /\ renderPending' = (commandsChanged' # commandsChanged)
               /\ interpolateProgresses' =
                    [i \in Series |-> runSpring(interpolateProgresses[i])]
               /\ error' = FALSE
               /\ upd' = [ outcome |-> "ok",
                           prog |-> interpolateProgresses,
                           had |-> [i \in Series |-> pathsValues[i].from.some],
                           cut |-> [i \in Series |->
                                      ~isInterpolatable(
                                         built[i].path,
                                         fromValue(pathsValues[i],
                                                   interpolateProgresses[i], line))] ]

\* one render of both components with the given props and measured size,
\* followed by the update effect (its dependency arrays are rebuilt on every
\* render, so it runs after every render)
Render(pts, r, hp, vp, w, h) ==
  /\ ~error
  /\ renders < (IF enablePanGesture THEN MaxRendersPan ELSE MaxRenders)
  /\ renders' = renders + 1
  /\ allPoints' = pts /\ range' = r
  /\ horizontalPadding' = hp /\ verticalPadding' = vp
  /\ width' = w /\ height' = h
  /\ UNCHANGED << nSeries, enablePanGesture, shouldFillGradient >>
  /\ pathRanges' =
       [i \in Series |->
          IF << pts[i], r >> = << allPoints[i], range >>
            THEN pathRanges[i] ELSE getGraphPathRange(pts[i], r)]
  /\ pointsInRanges' =
       [i \in Series |->
          IF << pts[i], r >> = << allPoints[i], range >>
            THEN pointsInRanges[i] ELSE getPointsInRange(pts[i], pathRanges'[i])]
  /\ straightLine' =
       IF << h, w >> = << height, width >>
         THEN straightLine ELSE makeStraightLine(w, h)
  /\ staticPath' =
       IF staticPathDeps(h, vp, pts[1], r, w)
            = staticPathDeps(height, verticalPadding, allPoints[1], range, width)
         THEN staticPath
         ELSE buildStaticPath(pointsInRanges'[1], pathRanges'[1], h, w, vp)
  /\ updateEffect(w, h, hp, vp, pointsInRanges', pathRanges', straightLine')
  /\ rerun' = (<< pts, r, hp, vp, w, h >>
                = << allPoints, range, horizontalPadding, verticalPadding,
                     width, height >>)
  \* lines 496-502: the effect that shows the whole stroke again; it runs
  \* after the update effect unless that one threw
  /\ pathEnds' =
       IF error'
         THEN pathEnds
         ELSE [i \in Series |->
                 IF Len(pointsInRanges'[i]) # 0 /\ Len(commands'[i]) # 0
                   THEN WholePath ELSE pathEnds[i]]
  /\ sel' = NoMove
  /\ gestures' = quiet(gestures)
  /\ UNCHANGED << x, isActive, pointSelectedIndex, moves, panned, reported,
                  circleXs, circleYs >>

(* ----------------------------- operations ------------------------------ *)
\* lines 128-134: the canvas is measured
onLayout ==
  \E s \in Sizes :
    /\ s # << width, height >>
    /\ Render(allPoints, range, horizontalPadding, verticalPadding, s[1], s[2])

\* the host passes new points for one series
SetPoints ==
  \E i \in Series, ps \in PointSets :
    /\ ps # allPoints[i]
    /\ Render([allPoints EXCEPT ![i] = ps], range, horizontalPadding,
              verticalPadding, width, height)

\* the host passes another range
SetRange ==
  \E r \in Ranges :
    /\ r # range
    /\ Render(allPoints, r, horizontalPadding, verticalPadding, width, height)

\* the host passes other paddings
SetPadding ==
  \E pad \in Paddings :
    /\ pad # << horizontalPadding, verticalPadding >>
    /\ Render(allPoints, range, pad[1], pad[2], width, height)

\* a re-render with unchanged inputs: the one a state setter scheduled, or
\* one of the parent
Rerender ==
  Render(allPoints, range, horizontalPadding, verticalPadding, width, height)

\* the spring driver advances the progress of the running transitions
AdvanceProgress ==
  /\ ~error
  /\ \E i \in Series : interpolateProgresses[i] < PMax
  /\ interpolateProgresses' =
       [i \in Series |->
          IF interpolateProgresses[i] < PMax
            THEN interpolateProgresses[i] + 1 ELSE interpolateProgresses[i]]
  /\ upd' = NoUpdate
  /\ rerun' = FALSE
  /\ sel' = NoMove
  /\ gestures' = quiet(gestures)
  /\ UNCHANGED << inputs, memos, pathsValues, gradientPaths, commands,
                  commandsChanged, renderPending, x, isActive,
                  pointSelectedIndex, error, renders, moves, panned, reported,
                  circleXs, circleYs, pathEnds >>

(* --------------------------- pointer selection ------------------------- *)
Max(a, b) == IF a > b THEN a ELSE b
Min(a, b) == IF a < b THEN a ELSE b

\* Math.round(a / b) for b # 0: floor(a / b + 1/2)
RoundDiv(a, b) ==
  IF b > 0 THEN (2 * a + b) \div (2 * b) ELSE (b - 2 * a) \div (0 - 2 * b)

\* pointIndexOf without the clamp of line 403
pointIndexOfNoClamp(fingerX, hp, dw, pir, pr) ==
  LET fingerXInRange == Max(fingerX - hp, 0)
      denom == getXInRange(dw, pir[Len(pir)].date, pr)
      last == Len(pir) - 1
  IN  IF denom = 0
        THEN IF fingerXInRange = 0 \/ last = 0 THEN NaN ELSE Num(last)
        ELSE Num(RoundDiv(fingerXInRange * last, denom))

\* lines 392-403: the sample index of one series for a pointer position;
\* a division by zero gives Infinity or NaN as in IEEE arithmetic
pointIndexOf(fingerX, hp, dw, pir, pr) ==
  LET fingerXInRange == Max(fingerX - hp, 0)
      denom == getXInRange(dw, pir[Len(pir)].date, pr)
      last == Len(pir) - 1
  IN  IF denom = 0
        THEN IF fingerXInRange = 0 \/ last = 0 THEN NaN ELSE Num(last)
        ELSE Num(Min(Max(RoundDiv(fingerXInRange * last, denom), 0), last))

\* line 405: pointSelectedIndex.current !== pointIndex (NaN differs from all)
differs(ref, pointIndex) == pointIndex.kind = "NaN" \/ ref # pointIndex

\* lines 389-413: setFingerPoints of series i, given the ref as it finds it;
\* the result is the ref, whether the callback was invoked, whether it threw
setFingerPoints(i, fingerX, ref) ==
  IF Len(pointsInRanges[i]) = 0
    THEN \* pointsInRanges[i][-1] is undefined: reading .date throws
         [ref |-> ref, idx |-> Undefined, called |-> FALSE, threw |-> TRUE]
    ELSE
      LET pointIndex == pointIndexOf(fingerX, horizontalPadding,
                                     drawingWidth(width, horizontalPadding),
                                     pointsInRanges[i], pathRanges[i])
      IN  IF differs(ref, pointIndex)
            THEN [ ref |-> pointIndex, idx |-> pointIndex,
                   \* dataPoint != null
                   called |-> pointIndex.kind = "number",
                   threw |-> FALSE ]
            ELSE [ref |-> ref, idx |-> pointIndex, called |-> FALSE, threw |-> FALSE]

\* lines 479-482: the calls for series 1..i in order, threading the ref
RECURSIVE runPoints(_, _)
runPoints(i, fingerX) ==
  IF i = 0
    THEN [ref |-> pointSelectedIndex, idx |-> <<>>, calls |-> {}, threw |-> FALSE]
    ELSE LET before == runPoints(i - 1, fingerX)
             r == setFingerPoints(i, fingerX, before.ref)
         IN  [ ref |-> r.ref,
               idx |-> Append(before.idx, r.idx),
               calls |-> IF r.called THEN before.calls \cup {i} ELSE before.calls,
               threw |-> before.threw \/ r.threw ]

\* GetYForX (Inverse Sampler): the y of the curve at x, undefined on an
\* empty command sequence or outside its horizontal extent; segments of zero
\* horizontal extent are skipped
getYForX(cmds, xq) ==
  LET hits == {k \in 1..(Len(cmds) - 1) :
                 /\ cmds[k].x < cmds[k + 1].x
                 /\ cmds[k].x <= xq /\ xq <= cmds[k + 1].x}
  IN  IF hits = {}
        THEN Undefined
        ELSE LET k == CHOOSE h \in hits : \A j \in hits : h <= j
                 a == cmds[k]
                 b == cmds[k + 1]
             IN  Num(a.y + ((b.y - a.y) * (xq - a.x)) \div (b.x - a.x))

\* setFingerXs that moves the indicator's x without looking at y
setFingerXsAlwaysX(i, fingerX) ==
  LET y == getYForX(commands[i], fingerX)
  IN  [ circleX |-> fingerX,
        circleY |-> IF y.kind # "undefined" THEN y.n ELSE circleYs[i],
        pathEnd |-> IF isActive THEN << fingerX, width >> ELSE pathEnds[i] ]

\* lines 424-444: setFingerXs of series i: the indicator position and the
\* end of the stroke it leaves
setFingerXs(i, fingerX) ==
  LET y == getYForX(commands[i], fingerX)
  IN  [ circleX |-> IF y.kind # "undefined" THEN fingerX ELSE circleXs[i],
        circleY |-> IF y.kind # "undefined" THEN y.n ELSE circleYs[i],
        pathEnd |-> IF isActive THEN << fingerX, width >> ELSE pathEnds[i] ]

\* lines 475-486: the reaction to a change of x.  The gesture reports
\* positions of touches on the laid-out canvas, so it moves only on a
\* measured one
PointerMove ==
  \E fingerX \in FingerXs :
    /\ ~error
    /\ enablePanGesture
    /\ moves < MaxMoves
    /\ width >= 1
    /\ fingerX # x
    /\ x' = fingerX
    /\ moves' = moves + 1
    /\ IF isActive \/ fingerX # 0
         THEN LET r == runPoints(nSeries, fingerX)
                  c == [i \in Series |-> setFingerXs(i, fingerX)]
              IN  /\ circleXs' = [i \in Series |-> c[i].circleX]
                  /\ circleYs' = [i \in Series |-> c[i].circleY]
                  /\ pathEnds' = [i \in Series |-> c[i].pathEnd]
                  /\ pointSelectedIndex' = r.ref
                  /\ sel' = [ moved |-> TRUE, idx |-> r.idx, calls |-> r.calls,
                              before |-> reported ]
                  /\ reported' = [i \in Series |->
                                    IF i \in r.calls THEN r.idx[i] ELSE reported[i]]
                  /\ error' = r.threw
         ELSE /\ sel' = NoMove
              /\ UNCHANGED << pointSelectedIndex, reported, error,
                              circleXs, circleYs, pathEnds >>
    /\ upd' = NoUpdate
    /\ rerun' = FALSE
    /\ gestures' = quiet(gestures)
    /\ UNCHANGED << inputs, memos, pathsValues, gradientPaths,
                    interpolateProgresses, commands, commandsChanged,
                    renderPending, isActive, renders, panned >>

\* lines 488-494: the gesture becomes active or inactive and the reaction
\* to isActive calls setIsActive; setPanned(true) schedules a re-render the
\* first time
SetActive ==
  \E active \in BOOLEAN :
    /\ ~error
    /\ enablePanGesture
    /\ active # isActive
    /\ isActive' = active
    /\ LET r == setIsActive(active)
       IN  /\ panned' = (panned \/ r.panned)
           /\ renderPending' = (renderPending \/ (r.panned /\ ~panned))
           /\ gestures' = invoked(gestures, r.callback)
    /\ upd' = NoUpdate
    /\ rerun' = FALSE
    /\ sel' = NoMove
    /\ UNCHANGED << inputs, memos, pathsValues, gradientPaths,
                    interpolateProgresses, commands, commandsChanged,
                    x, pointSelectedIndex, error, renders, moves, reported,
                    circleXs, circleYs, pathEnds >>

Next ==
  \/ PointerMove
  \/ SetActive
  \/ onLayout
  \/ SetPoints
  \/ SetRange
  \/ SetPadding
  \/ Rerender
  \/ AdvanceProgress

Spec == Init /\ [][Next]_vars

\* the component with the pan gesture disabled (the default), the spring
\* driver advancing every running transition
InitLive == Init /\ ~enablePanGesture

NextLive ==
  \/ onLayout
  \/ SetPoints
  \/ SetRange
  \/ SetPadding
  \/ Rerender
  \/ AdvanceProgress

SpecLive == InitLive /\ [][NextLive]_vars /\ WF_vars(AdvanceProgress)

\* the component with the pan gesture enabled, mounted with any point sets
\* (evenly spaced or not) that the host does not change afterwards
InitSel == InitWith(PointSets \cup PointSetsUneven) /\ enablePanGesture

NextSel ==
  \/ onLayout
  \/ PointerMove
  \/ SetActive

SpecSel == InitSel /\ [][NextSel]_vars

(* ============================== properties ============================= *)
\* the curve the Path Builder gives for a point set and these inputs
builtFrom(points, r, hp, vp, w, h) ==
  LET pr == getGraphPathRange(points, r)
  IN  createGraphPath([ pointsInRange |-> getPointsInRange(points, pr),
                        range |-> pr,
                        horizontalPadding |-> hp, verticalPadding |-> vp,
                        canvasHeight |-> h, canvasWidth |-> w ])

\* the curve the Path Builder gives for series i from the current inputs
builtNow(i) ==
  builtFrom(allPoints[i], range, horizontalPadding, verticalPadding, width, height)

\* the interpolation of F -> T at progress p, coordinate by coordinate
between(F, T, p) ==
  [k \in 1..Len(T) |->
     Cmd(T[k].verb, (T[k].x * p + F[k].x * (PMax - p)) \div PMax,
                    (T[k].y * p + F[k].y * (PMax - p)) \div PMax)]

\* C1: the displayed curve of every series is the interpolation of its pair
\* at its progress; at progress 0 it is exactly the pair's `from`, at
\* progress 1 exactly the pair's `to`, an absent endpoint standing for the
\* flat placeholder.
C1_ShownIsInterpolation ==
  \A i \in Series :
    LET F == OrElse(pathsValues[i].from, straightLine)
        T == OrElse(pathsValues[i].to, straightLine)
        p == interpolateProgresses[i]
    IN  /\ paths(i) = Some(between(F, T, p))
        /\ p = 0 => paths(i) = Some(F)
        /\ p = PMax => paths(i) = Some(T)

\* a finished transition between two different curves
C1_Witness ==
  \E i \in Series :
    /\ pathsValues[i].from.some
    /\ pathsValues[i].from # pathsValues[i].to
    /\ interpolateProgresses[i] = PMax
    /\ paths(i) = pathsValues[i].to

\* the `from` the claims C2-C4 name for series i, from the pair and the
\* progress an update finds and the placeholder of its render
expectedFrom(pair, p, line) ==
  IF pair.from.some /\ p < PMax
    THEN between(pair.from.path, OrElse(pair.to, line), p)
    ELSE OrElse(pair.to, line)

\* C2: an update that builds the curve N for a series whose pair is {F, T}
\* at progress p publishes `to` = N, and `from` = the interpolation of
\* F -> T at p if F is present and p < 1, else T (the placeholder if T is
\* absent), whenever N is compatible with that `from`.
C2_NewPair ==
  [][ upd'.outcome = "ok" =>
        \A i \in Series :
          LET E == expectedFrom(pathsValues[i], interpolateProgresses[i], straightLine')
              N == builtFrom(allPoints'[i], range', horizontalPadding',
                             verticalPadding', width', height')
          IN  /\ pathsValues'[i].to = Some(N)
              /\ isInterpolatable(N, E) => pathsValues'[i].from = Some(E) ]_vars

\* an update that arrived mid-transition and published the in-flight curve,
\* which is neither endpoint's successor
C2_Witness ==
  /\ upd.outcome = "ok"
  /\ \E i \in Series :
       /\ upd.had[i] /\ ~upd.cut[i]
       /\ upd.prog[i] > 0 /\ upd.prog[i] < PMax
       /\ pathsValues[i].to = Some(builtNow(i))
       /\ pathsValues[i].from # pathsValues[i].to

\* C3: if the curve an update builds is compatible with the curve displayed
\* just before it (the one the update's render shows for the old pair and
\* progress), the curve displayed right after it, at progress 0, is that
\* same curve; also when the old progress is strictly between 0 and 1.
C3_NoSnap ==
  [][ upd'.outcome = "ok" =>
        \A i \in Series :
          LET before == shownPath(pathsValues[i], interpolateProgresses[i], straightLine')
              after == shownPath(pathsValues'[i], interpolateProgresses'[i], straightLine')
          IN  (before.some /\ isInterpolatable(pathsValues'[i].to.path, before.path))
                => after = before ]_vars

\* an update arrived mid-transition between two different curves and was
\* not cut: the displayed curve is the in-flight one
C3_Witness ==
  /\ upd.outcome = "ok"
  /\ \E i \in Series :
       /\ upd.had[i] /\ ~upd.cut[i]
       /\ upd.prog[i] > 0 /\ upd.prog[i] < PMax
       /\ interpolateProgresses[i] = 0
       /\ paths(i) = pathsValues[i].from
       /\ paths(i) # pathsValues[i].to

\* C4: when the curve N an update builds is not interpolatable with the
\* `from` computed for it, the update publishes from = to = N.
C4_HardCut ==
  [][ upd'.outcome = "ok" =>
        \A i \in Series :
          LET E == expectedFrom(pathsValues[i], interpolateProgresses[i], straightLine')
              N == builtFrom(allPoints'[i], range', horizontalPadding',
                             verticalPadding', width', height')
          IN  ~isInterpolatable(N, E)
                => pathsValues'[i] = [from |-> Some(N), to |-> Some(N)] ]_vars

\* an update whose curve did not fit the previous pair was cut
C4_Witness ==
  /\ upd.outcome = "ok"
  /\ \E i \in Series :
       /\ upd.had[i] /\ upd.cut[i]
       /\ pathsValues[i] = [from |-> Some(builtNow(i)), to |-> Some(builtNow(i))]

\* C5: in every reachable state the `from` and `to` of every pair are both
\* absent or both present and compatible, so the displayed interpolation is
\* defined at every progress.
C5_PairCompatible ==
  \A i \in Series :
    /\ \/ ~pathsValues[i].from.some /\ ~pathsValues[i].to.some
       \/ /\ pathsValues[i].from.some /\ pathsValues[i].to.some
          /\ isInterpolatable(pathsValues[i].to.path, pathsValues[i].from.path)
    /\ \A q \in 0..PMax : shownPath(pathsValues[i], q, straightLine).some

\* after a resize and a hard cut, a pair is shown mid-transition
C5_Witness ==
  \E i \in Series :
    /\ renders >= 3
    /\ pathsValues[i].from.some
    /\ Len(pathsValues[i].to.path) # Len(straightLine)
    /\ pathsValues[i].from # pathsValues[i].to
    /\ interpolateProgresses[i] > 0 /\ interpolateProgresses[i] < PMax

\* every series has reached progress 1 and shows the curve built from the
\* current inputs
AllSettled ==
  \A i \in Series :
    /\ interpolateProgresses[i] = PMax
    /\ paths(i) = Some(builtNow(i))

\* C6: every successful update resets the progress of every series to 0;
\* if no further render follows, the progress of every series eventually
\* reaches 1 and every series displays its newly built curve.
C6_ResetThenSettle ==
  /\ [][ upd'.outcome = "ok" =>
           \A i \in Series : interpolateProgresses'[i] = 0 ]_vars
  /\ \A k \in 1..MaxRenders :
       (renders = k /\ upd.outcome = "ok") ~> (renders > k \/ AllSettled)

\* after a second update every transition has run to its end
C6_Witness ==
  /\ renders >= 2
  /\ AllSettled
  /\ \E i \in Series : pathsValues[i].from # pathsValues[i].to

\* the filtered set of series i under the current inputs
filteredNow(i) ==
  getPointsInRange(allPoints[i], getGraphPathRange(allPoints[i], range))

Drawable ==
  /\ width >= 1 /\ height >= 1
  /\ \A i \in Series : Len(filteredNow(i)) > 0

\* the static graph's curve for the current inputs
staticNow ==
  buildStaticPath(filteredNow(1), getGraphPathRange(allPoints[1], range),
                  height, width, verticalPadding)

\* C7: with a measured canvas and non-empty filtered sets, the `to` of every
\* series' pair and the static graph's path are the curves built from the
\* current inputs, never ones built from superseded inputs.
C7_CurveIsCurrent ==
  Drawable =>
    /\ \A i \in Series : pathsValues[i].to = Some(builtNow(i))
    /\ staticPath = staticNow

\* the fill curve the Path Builder gives from the current inputs
fillNow ==
  LET pr == getGraphPathRange(allPoints[1], range)
  IN  createGraphPathWithGradient(
        [ pointsInRange |-> getPointsInRange(allPoints[1], pr), range |-> pr,
          horizontalPadding |-> horizontalPadding,
          verticalPadding |-> verticalPadding,
          canvasHeight |-> height, canvasWidth |-> width ]).gradientPath

\* C8: with gradient fill enabled, a successful update publishes the fresh
\* fill curve as the `to` of the gradient pair, so that at progress 1 the
\* displayed gradient path is that fill curve, not the flat placeholder.
C8_FillPublished ==
  (shouldFillGradient /\ upd.outcome = "ok") =>
    /\ gradientPaths.current.to = Some(fillNow)
    /\ shownPath(gradientPaths.current, PMax, straightLine) = Some(fillNow)

\* C9: an update with a measured canvas and non-empty filtered sets
\* publishes a stroke curve and its commands for every series, with and
\* without gradient fill and for any number of series, and raises nothing.
C9_EverySeriesPublished ==
  upd.outcome \in {"ok", "throw"} =>
    /\ ~error
    /\ \A i \in Series :
         /\ pathsValues[i].to = Some(builtNow(i))
         /\ commands[i] = toCmds(builtNow(i))

\* C10: a pointer movement invokes onPointSelected for series i only when
\* the index it finds for series i differs from the index last reported
\* for series i (canvas measured).
C10_CallbackOnlyOnChange ==
  (sel.moved /\ width >= 1) =>
    \A i \in sel.calls : sel.idx[i] # sel.before[i]

\* C11: a pointer movement that finds for series i an in-range sample other
\* than the one last reported for series i invokes onPointSelected for
\* series i, also when another series finds the same index on that movement.
C11_CallbackOnEveryChange ==
  sel.moved =>
    \A i \in Series :
      ( /\ sel.idx[i].kind = "number"
        /\ sel.before[i].kind = "number"
        /\ sel.idx[i] # sel.before[i] ) => i \in sel.calls

\* pixel-x of the k-th in-range sample of series i
sampleX(i, k) ==
  horizontalPadding
    + getXInRange(drawingWidth(width, horizontalPadding),
                  pointsInRanges[i][k].date, pathRanges[i])

Dist(a, b) == IF a > b THEN a - b ELSE b - a

\* C12: the sample a pointer movement to x selects for a series is an
\* in-range sample whose pixel-x is nearest to x: no other in-range sample
\* of that series is mapped closer to x.
C12_SelectsNearest ==
  sel.moved =>
    \A i \in Series :
      sel.idx[i].kind = "number" =>
        \A k \in 1..Len(pointsInRanges[i]) :
          Dist(sampleX(i, sel.idx[i].n + 1), x) <= Dist(sampleX(i, k), x)

\* the filtered set of a point set under a range override
filteredFrom(points, r) ==
  getPointsInRange(points, getGraphPathRange(points, r))

\* C13: a render on an unmeasured canvas (width < 1 or height < 1) or with
\* an empty filtered set for some series draws nothing new: every pair,
\* every command sequence and every progress is left as it was, no
\* transition is started.
C13_SkipDrawsNothing ==
  [][ ( /\ renders' # renders
        /\ \/ width' < 1
           \/ height' < 1
           \/ \E i \in Series : Len(filteredFrom(allPoints'[i], range')) < 1 )
      => /\ pathsValues' = pathsValues
         /\ gradientPaths' = gradientPaths
         /\ commands' = commands
         /\ interpolateProgresses' = interpolateProgresses ]_vars

\* an update was skipped for an empty filtered set while a transition
\* between published curves was in flight
C13_Witness ==
  /\ upd.outcome = "empty"
  /\ \E i \in Series :
       /\ pathsValues[i].to.some
       /\ commands[i] # <<>>
       /\ interpolateProgresses[i] > 0 /\ interpolateProgresses[i] < PMax

\* an update was skipped on a canvas that lost its size after curves had
\* been published
C13_WitnessUnmeasured ==
  /\ upd.outcome = "unmeasured"
  /\ \E i \in Series : pathsValues[i].to.some

\* C14: a pointer movement that arrives while the filtered point set of a
\* series is empty raises no exception and invokes no selection callback
\* for that series.
C14_EmptySetIsHarmless ==
  sel.moved =>
    /\ (\E i \in Series : Len(pointsInRanges[i]) = 0) => ~error
    /\ \A i \in Series : Len(pointsInRanges[i]) = 0 => i \notin sel.calls

\* C15: on a pointer movement to x, a series for which the Inverse Sampler
\* returns no value at x keeps its indicator position (circleX, circleY);
\* a series for which it returns y gets circleX = x and circleY = y
\* together.
C15_IndicatorFollowsSampler ==
  [][ sel'.moved =>
        \A i \in Series :
          LET y == getYForX(commands[i], x')
          IN  IF y.kind = "undefined"
                THEN /\ circleXs'[i] = circleXs[i]
                     /\ circleYs'[i] = circleYs[i]
                ELSE /\ circleXs'[i] = x'
                     /\ circleYs'[i] = y.n ]_vars

\* a movement left the indicator of a series where an earlier movement had
\* put it, because the pointer is outside that series' curve
C15_Witness ==
  /\ sel.moved
  /\ \E i \in Series :
       /\ getYForX(commands[i], x).kind = "undefined"
       /\ commands[i] # <<>>
       /\ circleXs[i] # x
       /\ circleXs[i] # 0

\* a movement put the indicator of a series on its curve
C15_WitnessOnCurve ==
  /\ sel.moved
  /\ \E i \in Series :
       /\ getYForX(commands[i], x) = Num(circleYs[i])
       /\ circleXs[i] = x
       /\ circleYs[i] # 0

C17_IndexClamped ==
  sel.moved =>
    \A i \in Series :
      LET n == Len(pointsInRanges[i])
      IN  n >= 2 =>
            /\ sel.idx[i].kind = "number"
            /\ sel.idx[i].n >= 0 /\ sel.idx[i].n <= n - 1
            /\ x <= horizontalPadding => sel.idx[i].n = 0
            /\ x >= sampleX(i, n) => sel.idx[i].n = n - 1

\* a pointer beyond the last sample of a three-sample series was clamped to
\* the last index
C17_Witness ==
  /\ sel.moved
  /\ \E i \in Series :
       /\ Len(pointsInRanges[i]) >= 3
       /\ x > sampleX(i, Len(pointsInRanges[i]))
       /\ sel.idx[i] = Num(Len(pointsInRanges[i]) - 1)

\* a pointer left of the padding selected the first sample
C17_WitnessLeft ==
  /\ sel.moved
  /\ horizontalPadding >= 1
  /\ x < horizontalPadding
  /\ \E i \in Series : Len(pointsInRanges[i]) >= 2 /\ sel.idx[i] = Num(0)

C19_WitnessEnd ==
  /\ ~isActive
  /\ gestures = [step |-> << "onGestureEnd" >>, prev |-> "onGestureStart"]

\* C20: a render with unchanged inputs, such as the one the effect's own
\* state write schedules, schedules no further render: the effect re-runs
\* at most once for its own write, after which no re-render and no restart
\* of a transition is pending.
C20_RerunSchedulesNone ==
  rerun => ~renderPending

\* the effect ran again on unchanged inputs, restarted the transitions and
\* left the counters as they were
C20_Witness ==
  /\ rerun
  /\ upd.outcome = "ok"
  /\ ~renderPending
  /\ \A i \in Series : commandsChanged[i] = NaN /\ interpolateProgresses[i] = 0

====
